---- MODULE Spec2Model ----
(***************************************************************************)
(* LocalMemoryClient (client.ts): lazy initialization, embedding with      *)
(* retry, the "memories" table (create / add / delete / search / wipe)     *)
(* and the JSON profile file.  Every await of the source is one step of    *)
(* the calling operation, so operations interleave exactly where the       *)
(* single-threaded scheduler lets them.                                    *)
(*                                                                         *)
(* Strings are run-length encoded: a text is a sequence of runs            *)
(* [ch, n] (n copies of the character ch), which keeps a 50,000 character  *)
(* content small.  Ids are sequences of one-character strings.             *)
(***************************************************************************)
EXTENDS Integers, Sequences, FiniteSets, TLC

VARIABLES
    db,          \* this.db: TRUE when a connection is held, FALSE for null
    table,       \* this.table: TRUE when a table handle is cached, FALSE for null
    initPromise, \* this.initPromise: 0 for null, else an index into inits
    inits,       \* every doInit() run so far: its position and its promise's state
    disk,        \* the "memories" table of the store directory
    profileFile, \* the profile file
    dimNow,      \* the dimension of the vectors the embedding service returns now
    emb,         \* the embedding service's (deterministic) text -> value map
    dialect,     \* how the store reads a quoted literal of a filter text
    agent,       \* the plugin as registered with the host: its hooks and each session's turn
    clock,       \* Date.now()
    nextGen,     \* the number of ids generateId() has produced
    pc,          \* per caller: where its operation is suspended
    op,          \* per caller: the public operation and its arguments
    loc,         \* per caller: the locals of the suspended frames
    result,      \* per caller: what its last completed operation returned
    snap,        \* per caller: the store as it was when the operation was invoked
    nops,        \* the number of operations invoked so far
    hist         \* what the last completed operations were (see NoHistory)

vars == <<db, table, initPromise, inits, disk, profileFile, dimNow, emb, dialect, agent, clock,
          nextGen, pc, op, loc, result, snap, nops, hist>>

\* the client and its environment, which the host's lifecycle events leave alone
clientVars ==
    <<db, table, initPromise, inits, disk, profileFile, dimNow, emb, dialect,
      clock, nextGen, pc, op, loc, result, snap, nops, hist>>

--------------------------------------------------------------------------
(* Program constants *)

MAX_CONTENT_LENGTH == 50000
EMBED_RETRY_COUNT == 3
DYNAMIC_CAP == 20
DEFAULT_LIMIT == 5
FORGET_LIMIT == 5
PROFILE_SEARCH_LIMIT == 10
PREVIEW_MAX == 100

(* Bounds of the model *)

NumCallers == 2      \* callers that may have an operation in flight at once
MaxOps == 3          \* operations invoked in one run of the sequential model
MaxUpdates == 3      \* updateProfile calls in one run of the profile model
MaxClock == 1        \* the clock's last tick
MaxStored == 5       \* records of a store found on disk at start-up

Callers == 1 .. NumCallers

--------------------------------------------------------------------------
(* Optional arguments: <<>> is undefined, <<x>> is the value x *)

None == <<>>
Some(x) == <<x>>
IsSome(o) == o # <<>>
Get(o) == o[1]

Min(a, b) == IF a < b THEN a ELSE b

--------------------------------------------------------------------------
(* Strings *)

Run(c, k) == [ch |-> c, n |-> k]

RECURSIVE StrLen(_)
StrLen(t) == IF t = <<>> THEN 0 ELSE Head(t).n + StrLen(Tail(t))

RECURSIVE TrimStart(_)
TrimStart(t) ==
    IF t = <<>> THEN <<>>
    ELSE IF Head(t).ch = " " THEN TrimStart(Tail(t)) ELSE t

RECURSIVE TrimEnd(_)
TrimEnd(t) ==
    IF t = <<>> THEN <<>>
    ELSE IF t[Len(t)].ch = " " THEN TrimEnd(SubSeq(t, 1, Len(t) - 1)) ELSE t

\* String.prototype.trim
Trim(t) == TrimEnd(TrimStart(t))

\* String.prototype.slice(0, k)
RECURSIVE SliceTo(_, _)
SliceTo(t, k) ==
    IF t = <<>> \/ k <= 0 THEN <<>>
    ELSE IF Head(t).n >= k THEN <<Run(Head(t).ch, k)>>
    ELSE <<Head(t)>> \o SliceTo(Tail(t), k - Head(t).n)

\* the one-character ellipsis
ELLIPSIS == <<Run("...", 1)>>

limitText(text, max) ==
    IF StrLen(text) > max THEN SliceTo(text, max) \o ELLIPSIS ELSE text

T_empty      == <<>>
T_blank      == <<Run(" ", 2)>>
T_a          == <<Run("a", 1)>>
T_a_padded   == <<Run(" ", 1), Run("a", 1), Run(" ", 1)>>
T_b          == <<Run("b", 1)>>
T_max        == <<Run("a", MAX_CONTENT_LENGTH)>>
T_max_padded == <<Run(" ", 1), Run("a", MAX_CONTENT_LENGTH)>>
T_over       == <<Run("a", MAX_CONTENT_LENGTH + 1)>>

--------------------------------------------------------------------------
(* Ids *)

INIT_ID == <<"_", "_", "i", "n", "i", "t", "_", "_">>
ID_empty == <<>>
ID_k1 == <<"k", "1">>
ID_k2 == <<"k", "2">>
\* ids with a double quote, with a backslash, and with a quote (or a backslash
\* and a quote) followed by  OR true --
ID_quote == <<"a", "\"", "b">>
ID_backslash == <<"a", "\\">>
ID_or_true == <<"\"", " ", "O", "R", " ", "t", "r", "u", "e", " ", "-", "-">>
ID_backslash_or_true == <<"\\">> \o ID_or_true

DigitChars == <<"0", "1", "2", "3", "4", "5", "6", "7", "8", "9">>

RECURSIVE Decimal(_)
Decimal(k) ==
    IF k < 10 THEN <<DigitChars[k + 1]>>
    ELSE Decimal(k \div 10) \o <<DigitChars[(k % 10) + 1]>>

\* the k-th id generateId() produces: a time-plus-random token, fresh each time
generateId(k) == <<"m", "e", "m", "_">> \o Decimal(k)

RECURSIVE ReplaceChar(_, _, _)
ReplaceChar(s, c, by) ==
    IF s = <<>> THEN <<>>
    ELSE (IF Head(s) = c THEN by ELSE <<Head(s)>>) \o ReplaceChar(Tail(s), c, by)

sanitizeId(id) ==
    ReplaceChar(ReplaceChar(id, "\"", <<"\\", "\"">>), "'", <<"\\", "'">>)

QUOTE == "\""
BACKSLASH == "\\"

\* the filter text  id = "<safeId>"  that the delete calls build
IdFilter(safeId) == <<"i", "d", " ", "=", " ", QUOTE>> \o safeId \o <<QUOTE>>

--------------------------------------------------------------------------
(* The embedding service *)

Errors == {"ECONNREFUSED", "ETIMEDOUT"}
Dims == {1, 2}
Values == {0, 1}

\* the texts whose embedding the service is asked for with its own value;
\* every other text embeds to the value 0
EmbTexts == {T_a, T_a_padded, T_b}

EmbValue(t) == IF t \in DOMAIN emb THEN emb[t] ELSE 0

\* response.embeddings[0] for the input t
Embedding(t) == [i \in 1 .. dimNow |-> EmbValue(t)]

--------------------------------------------------------------------------
(* The store's "memories" table *)

NoTable == [exists |-> FALSE, dim |-> 0, rows |-> <<>>]

MemoryRecord(i, c, v, m) == [id |-> i, content |-> c, vector |-> v, metadata |-> m]

emptyRecord(vectorDim) ==
    MemoryRecord(INIT_ID, <<>>, [i \in 1 .. vectorDim |-> 0], "{}")

\* The store reads the filter text it is handed. The source fixes the text,
\* not the store's escape convention for a quoted literal, so both conventions
\* are modelled: a backslash escapes the next character ("backslash"), or a
\* doubled quote stands for a quote and a backslash is an ordinary character
\* ("doubled").
Dialects == {"backslash", "doubled"}
DefaultDialect == "doubled"

StartsWith(s, pre) == Len(s) >= Len(pre) /\ SubSeq(s, 1, Len(pre)) = pre
Drop(s, k) == SubSeq(s, k + 1, Len(s))

\* the literal that starts after an opening quote: whether a quote closes it,
\* its value, and the text after the closing quote
RECURSIVE ScanLiteral(_, _, _)
ScanLiteral(s, value, d) ==
    IF s = <<>> THEN [closed |-> FALSE, value |-> value, rest |-> <<>>]
    ELSE IF d = "backslash" /\ Head(s) = BACKSLASH
    THEN IF Len(s) = 1 THEN [closed |-> FALSE, value |-> value, rest |-> <<>>]
         ELSE ScanLiteral(Drop(s, 2), Append(value, s[2]), d)
    ELSE IF Head(s) = QUOTE
    THEN IF d = "doubled" /\ Len(s) >= 2 /\ s[2] = QUOTE
         THEN ScanLiteral(Drop(s, 2), Append(value, QUOTE), d)
         ELSE [closed |-> TRUE, value |-> value, rest |-> Tail(s)]
    ELSE ScanLiteral(Tail(s), Append(value, Head(s)), d)

RECURSIVE SkipSpaces(_)
SkipSpaces(s) == IF s # <<>> /\ Head(s) = " " THEN SkipSpaces(Tail(s)) ELSE s

\* nothing but blanks or a  --  comment is left of the text
AtEnd(s) == SkipSpaces(s) = <<>> \/ StartsWith(SkipSpaces(s), <<"-", "-">>)

FilterError == [ok |-> FALSE, all |-> FALSE, literal |-> <<>>]

\* the predicate the store reads from the text  id = "..."  : the comparison
\* of id with the literal, or that comparison OR true (which every row
\* satisfies) when that follows the literal; any other text is refused
ParseFilter(text, d) ==
    LET lit == ScanLiteral(Drop(text, 6), <<>>, d)
        r1 == SkipSpaces(lit.rest)
        r2 == SkipSpaces(Drop(r1, 3))
    IN  IF ~lit.closed THEN FilterError
        ELSE IF AtEnd(lit.rest)
        THEN [ok |-> TRUE, all |-> FALSE, literal |-> lit.value]
        ELSE IF /\ StartsWith(r1, <<"O", "R", " ">>)
                /\ StartsWith(r2, <<"t", "r", "u", "e">>)
                /\ AtEnd(Drop(r2, 4))
        THEN [ok |-> TRUE, all |-> TRUE, literal |-> lit.value]
        ELSE FilterError

\* the rows the predicate f does not match
RECURSIVE SelectRows(_, _)
SelectRows(rows, f) ==
    IF rows = <<>> THEN <<>>
    ELSE (IF f.all \/ Head(rows).id = f.literal THEN <<>> ELSE <<Head(rows)>>)
         \o SelectRows(Tail(rows), f)

\* db.createTable("memories", rows, {mode: "overwrite"})
CreateTable(rows) == [exists |-> TRUE, dim |-> Len(rows[1].vector), rows |-> rows]

\* table.delete(text) is refused when the table is gone or the text is not a
\* predicate; otherwise the rows the predicate does not match stay
CanDelete(d, text) == d.exists /\ ParseFilter(text, dialect).ok
TableDelete(d, text) ==
    [d EXCEPT !.rows = SelectRows(d.rows, ParseFilter(text, dialect))]

\* the count as it would be if it were taken after the drop
countRowsAfterDrop(d) == 0

\* table.countRows()
countRows(d) == Len(d.rows)

\* the add as it would be if the table took vectors of any length
CanAddAnyDimension(d, r) == d.exists

\* table.add([record]) is refused unless the vector has the table's dimension
CanAdd(d, r) == d.exists /\ Len(r.vector) = d.dim
TableAdd(d, r) == [d EXCEPT !.rows = Append(d.rows, r)]

RECURSIVE SumSq(_, _, _)
SumSq(u, v, i) ==
    IF i > Len(u) THEN 0
    ELSE (u[i] - v[i]) * (u[i] - v[i]) + SumSq(u, v, i + 1)

\* _distance of a row from the query vector (squared L2, the store's default)
Distance(u, v) == SumSq(u, v, 1)

\* table.vectorSearch(q).limit(k).toArray(): the k nearest rows by ascending
\* distance; the order among rows at the same distance is the store's choice
CanSearch(d, q) == d.exists /\ Len(q) = d.dim

NearestSets(d, q, k) ==
    LET n == Len(d.rows)
        m == Min(k, n)
    IN  { S \in SUBSET (1 .. n) :
            /\ Cardinality(S) = m
            /\ \A i \in S : \A j \in (1 .. n) \ S :
                  Distance(d.rows[i].vector, q) <= Distance(d.rows[j].vector, q) }

\* the orders of the rows S by ascending distance
RECURSIVE Orderings(_, _, _)
Orderings(d, q, S) ==
    IF S = {} THEN {<<>>}
    ELSE LET nearest == { i \in S : \A j \in S :
                             Distance(d.rows[i].vector, q) <= Distance(d.rows[j].vector, q) }
         IN  UNION { { <<i>> \o s : s \in Orderings(d, q, S \ {i}) } : i \in nearest }

VectorSearch(d, q, k) ==
    UNION { { [i \in 1 .. Len(s) |->
                 [row |-> d.rows[s[i]], distance |-> Distance(d.rows[s[i]].vector, q)]] :
              s \in Orderings(d, q, S) } : S \in NearestSets(d, q, k) }

\* JSON.parse(r.metadata), {} when it does not parse
ParsableMetadata == {"{}"}
ParseMetadata(m) == IF m \in ParsableMetadata THEN m ELSE "{}"

\* search's results.map(...)
SearchResult(h) ==
    [id |-> h.row.id, content |-> h.row.content, memory |-> h.row.content,
     similarity |-> 1 - h.distance, metadata |-> ParseMetadata(h.row.metadata)]

MapResults(hits) == [i \in 1 .. Len(hits) |-> SearchResult(hits[i])]

--------------------------------------------------------------------------
(* The profile file *)

NoFile == [kind |-> "absent", static |-> <<>>, dynamic |-> <<>>, lastUpdated |-> 0]

\* let profile = { static: [], dynamic: [], lastUpdated: "" }
EmptyProfile == [static |-> <<>>, dynamic |-> <<>>, lastUpdated |-> 0]

\* a file that is not JSON, and a file that holds the JSON text  null
GarbageFile == [kind |-> "garbage", static |-> <<>>, dynamic |-> <<>>, lastUpdated |-> 0]
NullFile == [kind |-> "null", static |-> <<>>, dynamic |-> <<>>, lastUpdated |-> 0]

\* what JSON.parse("null") returns: a value without properties, so that
\* reading or writing profile.static, .dynamic or .lastUpdated throws
NullProfile == [static |-> <<>>, dynamic |-> <<>>, lastUpdated |-> -1]
IsNull(profile) == profile.lastUpdated = -1

\* the load as it would be if a text that does not parse were taken for null
LoadProfileNoDefault(f) ==
    IF f.kind = "json"
    THEN [static |-> f.static, dynamic |-> f.dynamic, lastUpdated |-> f.lastUpdated]
    ELSE IF f.kind = "absent" THEN EmptyProfile
    ELSE NullProfile

\* readFile + JSON.parse inside try/catch: the default profile when either throws
LoadProfile(f) ==
    IF f.kind = "json"
    THEN [static |-> f.static, dynamic |-> f.dynamic, lastUpdated |-> f.lastUpdated]
    ELSE IF f.kind = "null" THEN NullProfile
    ELSE EmptyProfile

Contains(s, x) == \E i \in 1 .. Len(s) : s[i] = x

\* const existing = new Set(profile.static); for (fact of staticFacts)
\*   if (!existing.has(fact)) profile.static.push(fact)
\* existing is built once, before the loop, and never added to
RECURSIVE PushMissing(_, _, _)
PushMissing(static, existing, facts) ==
    IF facts = <<>> THEN static
    ELSE PushMissing(IF Head(facts) \in existing THEN static
                     ELSE Append(static, Head(facts)),
                     existing, Tail(facts))

\* the merge as it would be if the facts given replaced the ones read
MergeStaticReplace(static, facts) == facts

MergeStatic(static, facts) ==
    PushMissing(static, {static[i] : i \in 1 .. Len(static)}, facts)

\* the slice as it would be with the cap off by one
CapDynamicOffByOne(facts) == SubSeq(facts, 1, Min(DYNAMIC_CAP + 1, Len(facts)))

\* dynamicFacts.slice(0, 20)
CapDynamic(facts) == SubSeq(facts, 1, Min(DYNAMIC_CAP, Len(facts)))

\* the profile as it would be written if lastUpdated were stamped only when
\* a list changed
UpdatedProfileIfChanged(profile, staticFacts, dynamicFacts, now) ==
    LET static == IF IsSome(staticFacts)
                  THEN MergeStatic(profile.static, Get(staticFacts))
                  ELSE profile.static
        dynamic == IF IsSome(dynamicFacts)
                   THEN CapDynamic(Get(dynamicFacts))
                   ELSE profile.dynamic
    IN  [static |-> static, dynamic |-> dynamic,
         lastUpdated |-> IF static = profile.static /\ dynamic = profile.dynamic
                         THEN profile.lastUpdated ELSE now]

\* the profile updateProfile writes, from the one it read
UpdatedProfile(profile, staticFacts, dynamicFacts, now) ==
    [static |-> IF IsSome(staticFacts)
                THEN MergeStatic(profile.static, Get(staticFacts))
                ELSE profile.static,
     dynamic |-> IF IsSome(dynamicFacts)
                 THEN CapDynamic(Get(dynamicFacts))
                 ELSE profile.dynamic,
     lastUpdated |-> now]

\* writeFile(profilePath, JSON.stringify(profile))
WrittenFile(profile) ==
    [kind |-> "json", static |-> profile.static, dynamic |-> profile.dynamic,
     lastUpdated |-> profile.lastUpdated]

--------------------------------------------------------------------------
(* Callers *)

NoOp == [name |-> "none", content |-> <<>>, customId |-> None, query |-> None,
         limit |-> 0, id |-> <<>>, staticFacts |-> None, dynamicFacts |-> None]

NoLocals == [awaiting |-> 0, text |-> <<>>, attempt |-> 0, lastError |-> None,
             errs |-> <<>>, calls |-> 0, creates |-> 0, ret |-> "", vector |-> <<>>,
             cleaned |-> <<>>, id |-> <<>>, limit |-> 0, results |-> <<>>,
             target |-> None, count |-> 0, profile |-> EmptyProfile]

NoResult == [name |-> "none", kind |-> "none", err |-> "", hits |-> <<>>,
             id |-> <<>>, vector |-> <<>>, count |-> 0, success |-> FALSE,
             preview |-> <<>>, static |-> <<>>, dynamic |-> <<>>,
             calls |-> 0, errs |-> <<>>, creates |-> 0]

\* wipedDim: -1, or the dimension of the table (0: none) that the last
\* completed wipeAllMemories dropped, when only searches were invoked since;
\* lastAdd: the id and the content argument of the addMemory that returned
\* last, when no operation was invoked since
NoHistory == [wipedDim |-> -1, lastAdd |-> None]

\* init: the state of the promise cached in initPromise ("none": no promise);
\* table: this.table; settled: the callers whose operation had settled
NoSnap == [disk |-> NoTable, hist |-> NoHistory, file |-> NoFile, dim |-> 0,
           init |-> "none", table |-> FALSE, settled |-> {}, clock |-> 0]

\* the result record of caller p's operation, before its outcome is filled in
Outcome(p) == [NoResult EXCEPT !.name = op[p].name,
                               !.calls = loc[p].calls, !.errs = loc[p].errs,
                               !.creates = loc[p].creates]

Returned(p) == [Outcome(p) EXCEPT !.kind = "ok"]
Thrown(p, e) == [Outcome(p) EXCEPT !.kind = "err", !.err = e]

\* the operation of caller p settles with r
Finish(p, r) ==
    /\ pc' = [pc EXCEPT ![p] = "idle"]
    /\ result' = [result EXCEPT ![p] = r]
    /\ loc' = [loc EXCEPT ![p] = NoLocals]

Goto(p, label, locals) ==
    /\ pc' = [pc EXCEPT ![p] = label]
    /\ loc' = [loc EXCEPT ![p] = locals]
    /\ UNCHANGED result

--------------------------------------------------------------------------
(* ensureInitialized and doInit *)

\* ensureInitialized as it would be with a flag set at the end of doInit in place
\* of the cached promise: callers that arrive before the connection is there
\* each start doInit
ensureInitializedUnmemoized ==
    IF initPromise = 0 \/ ~db
    THEN /\ inits' = Append(inits, [pc |-> "mkdir1", state |-> "pending"])
         /\ initPromise' = Len(inits) + 1
    ELSE UNCHANGED <<inits, initPromise>>

\* the promise ensureInitialized() returns
InitIndex == IF initPromise = 0 THEN Len(inits) + 1 ELSE initPromise

\* if (!this.initPromise) this.initPromise = this.doInit(): doInit runs up to
\* its first await (the first mkdir) inside the call
ensureInitialized ==
    IF initPromise = 0
    THEN /\ inits' = Append(inits, [pc |-> "mkdir1", state |-> "pending"])
         /\ initPromise' = Len(inits) + 1
    ELSE UNCHANGED <<inits, initPromise>>

Settled(p) == inits[loc[p].awaiting].state # "pending"
Rejected(p) == inits[loc[p].awaiting].state = "rejected"

InitStep(i, label) == inits' = [inits EXCEPT ![i].pc = label]
InitSettle(i, how) == inits' = [inits EXCEPT ![i] = [pc |-> "end", state |-> how]]

\* await mkdir(dirname(dbPath)); await mkdir(dirname(profilePath))
DoInitMkdir(i) ==
    /\ inits[i].pc \in {"mkdir1", "mkdir2"}
    /\ InitStep(i, IF inits[i].pc = "mkdir1" THEN "mkdir2" ELSE "connect")
    /\ UNCHANGED <<db, table, initPromise, disk, profileFile, dimNow, emb, dialect, agent, clock,
                   nextGen, pc, op, loc, result, snap, nops, hist>>

\* this.db = await lancedb.connect(dbPath); then this.db.tableNames() is called
DoInitConnect(i) ==
    /\ inits[i].pc = "connect"
    /\ db' = TRUE
    /\ InitStep(i, "tableNames")
    /\ UNCHANGED <<table, initPromise, disk, profileFile, dimNow, emb, dialect, agent, clock,
                   nextGen, pc, op, loc, result, snap, nops, hist>>

\* tableNames.includes("memories") ? this.db.openTable("memories") : done
DoInitTableNames(i) ==
    /\ inits[i].pc = "tableNames"
    /\ IF disk.exists
       THEN IF db THEN InitStep(i, "openTable") ELSE InitSettle(i, "rejected")
       ELSE InitSettle(i, "fulfilled")
    /\ UNCHANGED <<db, table, initPromise, disk, profileFile, dimNow, emb, dialect, agent, clock,
                   nextGen, pc, op, loc, result, snap, nops, hist>>

\* this.table = await this.db.openTable("memories")
DoInitOpenTable(i) ==
    /\ inits[i].pc = "openTable"
    /\ IF disk.exists
       THEN table' = TRUE /\ InitSettle(i, "fulfilled")
       ELSE UNCHANGED table /\ InitSettle(i, "rejected")
    /\ UNCHANGED <<db, initPromise, disk, profileFile, dimNow, emb, dialect, agent, clock,
                   nextGen, pc, op, loc, result, snap, nops, hist>>

\* mkdir, connect, tableNames or openTable throws: doInit's promise is rejected
DoInitFail(i) ==
    /\ inits[i].pc \in {"mkdir1", "mkdir2", "connect", "tableNames", "openTable"}
    /\ InitSettle(i, "rejected")
    /\ UNCHANGED <<db, table, initPromise, disk, profileFile, dimNow, emb, dialect, agent, clock,
                   nextGen, pc, op, loc, result, snap, nops, hist>>

--------------------------------------------------------------------------
(* Invoking a public operation *)

Invoke(p, o, first) ==
    /\ pc[p] = "idle"
    /\ op' = [op EXCEPT ![p] = o]
    /\ ensureInitialized
    /\ pc' = [pc EXCEPT ![p] = first]
    /\ loc' = [loc EXCEPT ![p] = [NoLocals EXCEPT !.awaiting = InitIndex,
                                                  !.limit = o.limit]]
    /\ snap' = [snap EXCEPT ![p] =
                   [disk |-> disk, hist |-> hist, file |-> profileFile,
                    dim |-> dimNow,
                    init |-> IF initPromise = 0 THEN "none"
                             ELSE inits[initPromise].state,
                    table |-> table,
                    settled |-> {q \in Callers :
                                   pc[q] = "idle" /\ result[q].name # "none"},
                    clock |-> clock]]
    /\ hist' = [wipedDim |-> IF o.name = "search" THEN hist.wipedDim ELSE -1,
                lastAdd |-> None]
    /\ nops' = nops + 1
    /\ result' = [result EXCEPT ![p] = NoResult]
    /\ UNCHANGED <<db, table, disk, profileFile, dimNow, emb, dialect, agent, clock, nextGen>>

addMemoryCall(p, content, customId) ==
    Invoke(p, [NoOp EXCEPT !.name = "addMemory", !.content = content,
                           !.customId = customId], "add_init")

searchCall(p, query, limit) ==
    Invoke(p, [NoOp EXCEPT !.name = "search", !.query = Some(query),
                           !.limit = limit], "search_init")

\* forgetByQuery starts with this.search(query, 5)
forgetByQueryCall(p, query) ==
    Invoke(p, [NoOp EXCEPT !.name = "forgetByQuery", !.query = Some(query),
                           !.limit = FORGET_LIMIT], "search_init")

deleteMemoryCall(p, id) ==
    Invoke(p, [NoOp EXCEPT !.name = "deleteMemory", !.id = id], "delete_init")

wipeAllMemoriesCall(p) ==
    Invoke(p, [NoOp EXCEPT !.name = "wipeAllMemories"], "wipe_init")

getProfileCall(p, query) ==
    Invoke(p, [NoOp EXCEPT !.name = "getProfile", !.query = query,
                           !.limit = PROFILE_SEARCH_LIMIT], "profile_init")

updateProfileCall(p, staticFacts, dynamicFacts) ==
    Invoke(p, [NoOp EXCEPT !.name = "updateProfile", !.staticFacts = staticFacts,
                           !.dynamicFacts = dynamicFacts], "update_init")

--------------------------------------------------------------------------
(* embed: up to EMBED_RETRY_COUNT calls of the service *)

\* the loop condition: attempt < EMBED_RETRY_COUNT
LoopContinues(attempt) == attempt < EMBED_RETRY_COUNT

\* embed's catch as it would be if it awaited the delay after every attempt
WaitsAfterEvery(attempt) == attempt < EMBED_RETRY_COUNT

\* if (attempt < EMBED_RETRY_COUNT - 1) await the delay
WaitsAfter(attempt) == attempt < EMBED_RETRY_COUNT - 1

\* embed's catch as it would be if it kept the first error
CaughtFirstError(lastError, e) == IF IsSome(lastError) THEN lastError ELSE Some(e)

\* lastError = err instanceof Error ? err : new Error(String(err))
CaughtError(lastError, e) == Some(e)

\* the first iteration of embed's loop: the service is called with text
EmbedCall(p, text, ret, locals) ==
    Goto(p, "embed_wait",
         [locals EXCEPT !.text = text, !.attempt = 0, !.lastError = None,
                        !.errs = <<>>, !.calls = 1, !.ret = ret])

\* const id = customId ?? generateId(); if (customId) table.delete(...) is
\* issued, else table.add([record]); handle is what ensureTable returned
AfterEnsureTable(p, locals, handle) ==
    LET customId == op[p].customId
        id == IF IsSome(customId) THEN Get(customId) ELSE generateId(nextGen + 1)
    IN  /\ nextGen' = IF IsSome(customId) THEN nextGen ELSE nextGen + 1
        /\ IF ~handle
           THEN Finish(p, Thrown(p, "TypeError"))
           ELSE Goto(p, IF IsSome(customId) /\ Get(customId) # <<>>
                        THEN "add_delete" ELSE "add_insert",
                     [locals EXCEPT !.id = id])

\* ensureTable as it would be if it never found a handle
HandleNeverCached == FALSE

\* if (this.table) return this.table
HandleCached == table

\* the service answers attempt loc[p].attempt with a vector: embed returns it
\* and the caller (addMemory or search) runs on to its next await
EmbedOk(p) ==
    /\ pc[p] = "embed_wait"
    /\ LET vector == Embedding(loc[p].text)
           locals == [loc[p] EXCEPT !.vector = vector]
       IN  IF loc[p].ret = "add"
           THEN \* ensureTable(vector.length)
                IF HandleCached THEN AfterEnsureTable(p, locals, TRUE)
                ELSE /\ IF ~db
                        THEN Finish(p, Thrown(p, "Database not initialized"))
                        ELSE Goto(p, "create_wait", locals)
                     /\ UNCHANGED nextGen
           ELSE \* this.table.vectorSearch(queryVector).limit(limit).toArray()
                /\ IF ~table
                   THEN Finish(p, Thrown(p, "TypeError"))
                   ELSE Goto(p, "search_wait", locals)
                /\ UNCHANGED nextGen
    /\ UNCHANGED <<db, table, initPromise, inits, disk, profileFile, dimNow, emb, dialect, agent,
                   clock, op, snap, nops, hist>>

\* attempt++ and the loop condition: the service is called again, or the
\* loop is left and lastError ?? new Error("Embedding failed after retries")
\* is thrown
NextAttempt(p, locals) ==
    IF LoopContinues(locals.attempt + 1)
    THEN Goto(p, "embed_wait",
              [locals EXCEPT !.attempt = @ + 1, !.calls = @ + 1])
    ELSE /\ pc' = [pc EXCEPT ![p] = "idle"]
         /\ loc' = [loc EXCEPT ![p] = NoLocals]
         /\ result' = [result EXCEPT ![p] =
               [NoResult EXCEPT !.name = op[p].name, !.kind = "err",
                                !.err = IF IsSome(locals.lastError)
                                        THEN Get(locals.lastError)
                                        ELSE "Embedding failed after retries",
                                !.calls = locals.calls, !.errs = locals.errs]]

\* the service call of attempt loc[p].attempt throws e
EmbedFail(p, e) ==
    /\ pc[p] = "embed_wait"
    /\ LET caught == [loc[p] EXCEPT !.lastError = CaughtError(@, e),
                                    !.errs = Append(@, e)]
       IN  IF WaitsAfter(loc[p].attempt)
           THEN Goto(p, "embed_sleep", caught)
           ELSE NextAttempt(p, caught)
    /\ UNCHANGED <<db, table, initPromise, inits, disk, profileFile, dimNow, emb, dialect, agent,
                   clock, nextGen, op, snap, nops, hist>>

\* the delay EMBED_RETRY_DELAY_MS * (attempt + 1) is over
EmbedRetry(p) ==
    /\ pc[p] = "embed_sleep"
    /\ NextAttempt(p, loc[p])
    /\ UNCHANGED <<db, table, initPromise, inits, disk, profileFile, dimNow, emb, dialect, agent,
                   clock, nextGen, op, snap, nops, hist>>

--------------------------------------------------------------------------
(* addMemory and ensureTable *)

\* the validation as it would be without the length ceiling
ContentErrorNoCeiling(cleaned) ==
    IF cleaned = <<>> THEN "Cannot store empty content" ELSE ""

\* the validation of the trimmed content: "" when it passes
ContentError(cleaned) ==
    IF cleaned = <<>> THEN "Cannot store empty content"
    ELSE IF StrLen(cleaned) > MAX_CONTENT_LENGTH THEN "Content too large"
    ELSE ""

AddAfterInit(p) ==
    /\ pc[p] = "add_init"
    /\ Settled(p)
    /\ LET cleaned == Trim(op[p].content)
       IN  IF Rejected(p) THEN Finish(p, Thrown(p, "InitError"))
           ELSE IF ContentError(cleaned) # "" THEN Finish(p, Thrown(p, ContentError(cleaned)))
           ELSE EmbedCall(p, cleaned, "add", [loc[p] EXCEPT !.cleaned = cleaned])
    /\ UNCHANGED <<db, table, initPromise, inits, disk, profileFile, dimNow, emb, dialect, agent,
                   clock, nextGen, op, snap, nops, hist>>

\* this.table = await this.db.createTable("memories", [emptyRecord],
\* {mode: "overwrite"}); then this.table.delete(`id = "__init__"`) is issued
CreateTableDone(p) ==
    /\ pc[p] = "create_wait"
    /\ disk' = CreateTable(<<emptyRecord(Len(loc[p].vector))>>)
    /\ table' = TRUE
    /\ Goto(p, "create_delete", [loc[p] EXCEPT !.creates = @ + 1])
    /\ UNCHANGED <<db, initPromise, inits, profileFile, dimNow, emb, dialect, agent, clock,
                   nextGen, op, snap, nops, hist>>

\* the placeholder's delete is done; return this.table
CreateDeleteDone(p) ==
    /\ pc[p] = "create_delete"
    /\ IF disk.exists
       THEN \E text \in {IdFilter(sanitizeId(INIT_ID))} :
                /\ disk' = TableDelete(disk, text)
                /\ AfterEnsureTable(p, loc[p], table)
       ELSE /\ Finish(p, Thrown(p, "StoreError"))
            /\ UNCHANGED <<disk, nextGen>>
    /\ UNCHANGED <<db, table, initPromise, inits, profileFile, dimNow, emb, dialect, agent, clock,
                   op, snap, nops, hist>>

\* try { await table.delete(`id = "${sanitizeId(customId)}"`) } catch {}
\* then table.add([record]) is issued
AddDeleteDone(p) ==
    /\ pc[p] = "add_delete"
    /\ \E text \in {IdFilter(sanitizeId(Get(op[p].customId)))} :
           disk' = IF CanDelete(disk, text) THEN TableDelete(disk, text) ELSE disk
    /\ Goto(p, "add_insert", loc[p])
    /\ UNCHANGED <<db, table, initPromise, inits, profileFile, dimNow, emb, dialect, agent, clock,
                   nextGen, op, snap, nops, hist>>

\* the record as it would be built from the placeholder's vector
NewRecordZeroVector(id, cleaned, vector) ==
    MemoryRecord(id, cleaned, [i \in 1 .. Len(vector) |-> 0], "{}")

\* the record addMemory builds
NewRecord(id, cleaned, vector) == MemoryRecord(id, cleaned, vector, "{}")

\* await table.add([record]); return { id }
AddInsertDone(p) ==
    /\ pc[p] = "add_insert"
    /\ LET record == NewRecord(loc[p].id, loc[p].cleaned, loc[p].vector)
       IN  IF CanAdd(disk, record)
           THEN /\ disk' = TableAdd(disk, record)
                /\ hist' = [hist EXCEPT !.lastAdd =
                               Some([id |-> loc[p].id, content |-> op[p].content])]
                /\ Finish(p, [Returned(p) EXCEPT !.id = loc[p].id,
                                                 !.vector = loc[p].vector])
           ELSE /\ Finish(p, Thrown(p, "StoreError"))
                /\ UNCHANGED <<disk, hist>>
    /\ UNCHANGED <<db, table, initPromise, inits, profileFile, dimNow, emb, dialect, agent, clock,
                   nextGen, op, snap, nops>>

--------------------------------------------------------------------------
(* search, and what its callers do with the results *)

\* forgetByQuery: const target = results[0]
ForgetTarget(results) == results[1]

\* search returns results to its caller: the public search, getProfile or
\* forgetByQuery, which then returns or calls this.deleteMemory(target.id)
SearchReturns(p, results, locals) ==
    IF op[p].name = "forgetByQuery" /\ results # <<>>
    THEN /\ ensureInitialized
         /\ Goto(p, "delete_init",
                 [locals EXCEPT !.results = results,
                                !.target = Some(ForgetTarget(results)),
                                !.awaiting = InitIndex])
    ELSE /\ UNCHANGED <<inits, initPromise>>
         /\ Finish(p, IF op[p].name = "forgetByQuery"
                      THEN [Returned(p) EXCEPT !.success = FALSE]
                      ELSE IF op[p].name = "getProfile" /\ IsNull(locals.profile)
                      THEN Thrown(p, "TypeError")
                      ELSE IF op[p].name = "getProfile"
                      THEN [Returned(p) EXCEPT !.static = locals.profile.static,
                                               !.dynamic = locals.profile.dynamic,
                                               !.hits = results]
                      ELSE [Returned(p) EXCEPT !.hits = results])

\* if (!this.table) return []; else embed(query) makes its first call
SearchAfterInit(p) ==
    /\ pc[p] = "search_init"
    /\ Settled(p)
    /\ IF Rejected(p)
       THEN Finish(p, Thrown(p, "InitError")) /\ UNCHANGED <<inits, initPromise>>
       ELSE IF ~table
       THEN SearchReturns(p, <<>>, loc[p])
       ELSE EmbedCall(p, Get(op[p].query), "search", loc[p])
            /\ UNCHANGED <<inits, initPromise>>
    /\ UNCHANGED <<db, table, disk, profileFile, dimNow, emb, dialect, agent, clock, nextGen, op,
                   snap, nops, hist>>

\* the vector search answers
SearchDone(p) ==
    /\ pc[p] = "search_wait"
    /\ IF CanSearch(disk, loc[p].vector)
       THEN \E hits \in VectorSearch(disk, loc[p].vector, loc[p].limit) :
                SearchReturns(p, MapResults(hits), loc[p])
       ELSE Finish(p, Thrown(p, "StoreError")) /\ UNCHANGED <<inits, initPromise>>
    /\ UNCHANGED <<db, table, disk, profileFile, dimNow, emb, dialect, agent, clock, nextGen, op,
                   snap, nops, hist>>

--------------------------------------------------------------------------
(* deleteMemory and forgetByQuery *)

\* the id deleteMemory was called with
DeleteId(p) ==
    IF op[p].name = "deleteMemory" THEN op[p].id ELSE Get(loc[p].target).id

\* deleteMemory returns: to the public caller, or to forgetByQuery, which
\* reports the preview of the target it picked
DeleteReturns(p) ==
    Finish(p, IF op[p].name = "forgetByQuery"
              THEN LET target == Get(loc[p].target)
                   IN  [Returned(p) EXCEPT
                          !.success = TRUE,
                          !.id = target.id,
                          !.hits = loc[p].results,
                          !.preview = limitText(IF target.content # <<>>
                                                THEN target.content ELSE target.memory,
                                                PREVIEW_MAX)]
              ELSE Returned(p))

\* if (!this.table) return; else this.table.delete(...) is issued
DeleteAfterInit(p) ==
    /\ pc[p] = "delete_init"
    /\ Settled(p)
    /\ IF Rejected(p) THEN Finish(p, Thrown(p, "InitError"))
       ELSE IF ~table THEN DeleteReturns(p)
       ELSE Goto(p, "delete_wait", loc[p])
    /\ UNCHANGED <<db, table, initPromise, inits, disk, profileFile, dimNow, emb, dialect, agent,
                   clock, nextGen, op, snap, nops, hist>>

DeleteDone(p) ==
    /\ pc[p] = "delete_wait"
    /\ \E text \in {IdFilter(sanitizeId(DeleteId(p)))} :
           IF CanDelete(disk, text)
           THEN /\ disk' = TableDelete(disk, text)
                /\ DeleteReturns(p)
           ELSE /\ Finish(p, Thrown(p, "StoreError"))
                /\ UNCHANGED disk
    /\ UNCHANGED <<db, table, initPromise, inits, profileFile, dimNow, emb, dialect, agent, clock,
                   nextGen, op, snap, nops, hist>>

--------------------------------------------------------------------------
(* wipeAllMemories *)

\* if (!this.table || !this.db) return { deletedCount: 0 }; else countRows()
WipeAfterInit(p) ==
    /\ pc[p] = "wipe_init"
    /\ Settled(p)
    /\ IF Rejected(p)
       THEN Finish(p, Thrown(p, "InitError")) /\ UNCHANGED hist
       ELSE IF ~table \/ ~db
       THEN Finish(p, Returned(p)) /\ hist' = [hist EXCEPT !.wipedDim = 0]
       ELSE Goto(p, "wipe_count", loc[p]) /\ UNCHANGED hist
    /\ UNCHANGED <<db, table, initPromise, inits, disk, profileFile, dimNow, emb, dialect, agent,
                   clock, nextGen, op, snap, nops>>

\* const count = await this.table.countRows(); this.db.dropTable is issued
WipeCounted(p) ==
    /\ pc[p] = "wipe_count"
    /\ IF ~disk.exists THEN Finish(p, Thrown(p, "StoreError"))
       ELSE IF ~db THEN Finish(p, Thrown(p, "TypeError"))
       ELSE Goto(p, "wipe_drop", [loc[p] EXCEPT !.count = countRows(disk)])
    /\ UNCHANGED <<db, table, initPromise, inits, disk, profileFile, dimNow, emb, dialect, agent,
                   clock, nextGen, op, snap, nops, hist>>

\* wipeAllMemories as it would be without  this.table = null
WipedHandleKept == TRUE

\* the handle wipeAllMemories leaves in this.table
WipedHandle == FALSE

\* await this.db.dropTable("memories"); this.table = null; return the count
WipeDropped(p) ==
    /\ pc[p] = "wipe_drop"
    /\ IF disk.exists
       THEN /\ disk' = NoTable
            /\ table' = WipedHandle
            /\ hist' = [hist EXCEPT !.wipedDim = disk.dim]
            /\ Finish(p, [Returned(p) EXCEPT !.count = loc[p].count])
       ELSE /\ Finish(p, Thrown(p, "StoreError"))
            /\ UNCHANGED <<disk, table, hist>>
    /\ UNCHANGED <<db, initPromise, inits, profileFile, dimNow, emb, dialect, agent, clock,
                   nextGen, op, snap, nops>>

--------------------------------------------------------------------------
(* close *)

\* if (this.db) { this.table = null; this.db = null; this.initPromise = null }
Close ==
    /\ db
    /\ table' = FALSE
    /\ db' = FALSE
    /\ initPromise' = 0
    /\ UNCHANGED <<inits, disk, profileFile, dimNow, emb, dialect, agent, clock, nextGen,
                   pc, op, loc, result, snap, nops, hist>>

--------------------------------------------------------------------------
(* getProfile and updateProfile *)

ProfileAfterInit(p) ==
    /\ pc[p] = "profile_init"
    /\ Settled(p)
    /\ IF Rejected(p) THEN Finish(p, Thrown(p, "InitError"))
       ELSE Goto(p, "profile_read", loc[p])
    /\ UNCHANGED <<db, table, initPromise, inits, disk, profileFile, dimNow, emb, dialect, agent,
                   clock, nextGen, op, snap, nops, hist>>

\* the file is read; if (query && this.table) this.search(query, 10) is entered
ProfileRead(p) ==
    /\ pc[p] = "profile_read"
    /\ LET profile == LoadProfile(profileFile)
           locals == [loc[p] EXCEPT !.profile = profile]
       IN  IF IsSome(op[p].query) /\ Get(op[p].query) # <<>> /\ table
           THEN /\ ensureInitialized
                /\ Goto(p, "search_init", [locals EXCEPT !.awaiting = InitIndex])
           ELSE /\ UNCHANGED <<inits, initPromise>>
                /\ Finish(p, IF IsNull(profile) THEN Thrown(p, "TypeError")
                             ELSE [Returned(p) EXCEPT !.static = profile.static,
                                                      !.dynamic = profile.dynamic])
    /\ UNCHANGED <<db, table, disk, profileFile, dimNow, emb, dialect, agent, clock, nextGen, op,
                   snap, nops, hist>>

UpdateAfterInit(p) ==
    /\ pc[p] = "update_init"
    /\ Settled(p)
    /\ IF Rejected(p) THEN Finish(p, Thrown(p, "InitError"))
       ELSE Goto(p, "update_read", loc[p])
    /\ UNCHANGED <<db, table, initPromise, inits, disk, profileFile, dimNow, emb, dialect, agent,
                   clock, nextGen, op, snap, nops, hist>>

\* the file is read, the facts are merged, lastUpdated is stamped and
\* writeFile is issued with the whole profile
UpdateRead(p) ==
    /\ pc[p] = "update_read"
    /\ IF IsNull(LoadProfile(profileFile))
       THEN Finish(p, Thrown(p, "TypeError"))
       ELSE Goto(p, "update_write",
                 [loc[p] EXCEPT !.profile =
                     UpdatedProfile(LoadProfile(profileFile), op[p].staticFacts,
                                    op[p].dynamicFacts, clock)])
    /\ UNCHANGED <<db, table, initPromise, inits, disk, profileFile, dimNow, emb, dialect, agent,
                   clock, nextGen, op, snap, nops, hist>>

UpdateWritten(p) ==
    /\ pc[p] = "update_write"
    /\ profileFile' = WrittenFile(loc[p].profile)
    /\ Finish(p, [Returned(p) EXCEPT !.static = loc[p].profile.static,
                                     !.dynamic = loc[p].profile.dynamic])
    /\ UNCHANGED <<db, table, initPromise, inits, disk, dimNow, emb, dialect, agent, clock,
                   nextGen, op, snap, nops, hist>>

--------------------------------------------------------------------------
(* The environment *)

\* the embedding service is switched to a model of another dimension (the
\* dimension is read only when a call of the service answers, so a switch
\* while a call is in flight is a switch before it or after it)
ChangeDimension ==
    /\ \A p \in Callers : pc[p] = "idle"
    /\ \E d \in Dims \ {dimNow} : dimNow' = d
    /\ UNCHANGED <<db, table, initPromise, inits, disk, profileFile, emb, dialect, agent, clock,
                   nextGen, pc, op, loc, result, snap, nops, hist>>

Tick ==
    /\ clock < MaxClock
    /\ clock' = clock + 1
    /\ UNCHANGED <<db, table, initPromise, inits, disk, profileFile, dimNow, emb, dialect, agent,
                   nextGen, pc, op, loc, result, snap, nops, hist>>

--------------------------------------------------------------------------
(* The plugin: register() and the turns of the host's sessions *)

DEFAULT_PROFILE_FREQUENCY == 50

NumSessions == 2     \* sessions of the host
MaxTurns == 3        \* agent turns of one session in one run

Sessions == 1 .. NumSessions

\* parseConfig with no key given
DefaultConfig ==
    [autoRecall |-> TRUE, autoCapture |-> TRUE,
     profileFrequency |-> DEFAULT_PROFILE_FREQUENCY]

\* the configurations the turn model is run with
Configs ==
    [autoRecall : BOOLEAN, autoCapture : BOOLEAN, profileFrequency : {1, 2, 3}]

\* the lifecycle events register() subscribes to, whatever the configuration
HooksAlways(cfg) == {"before_agent_start", "agent_end"}

\* the lifecycle events register() subscribes to
HooksOf(cfg) ==
    (IF cfg.autoRecall THEN {"before_agent_start"} ELSE {})
        \cup (IF cfg.autoCapture THEN {"agent_end"} ELSE {})

\* the plugin after register(): per session the turn counter, the state of
\* the turn, the states the current turn went through, the number of runs
\* of the recall handler, the turns whose recall injected the full profile,
\* and the number of runs of the capture handler
register(cfg) ==
    [cfg |-> cfg,
     hooks |-> HooksOf(cfg),
     turn_counter |-> [s \in Sessions |-> 0],
     state |-> [s \in Sessions |-> "awaiting_turn"],
     path |-> [s \in Sessions |-> <<"awaiting_turn">>],
     recalled |-> [s \in Sessions |-> 0],
     injected |-> [s \in Sessions |-> {}],
     captured |-> [s \in Sessions |-> 0]]

NoAgent == register(DefaultConfig)

\* the recall of turn n injects the full profile
InjectsProfile(cfg, n) == n % cfg.profileFrequency = 0

\* the current turn of session s is due a profile injection
InjectionDue(s) ==
    /\ "before_agent_start" \in agent.hooks
    /\ InjectsProfile(agent.cfg, agent.turn_counter[s])

Enter(s, st) ==
    [agent EXCEPT !.state[s] = st, !.path[s] = Append(@, st)]

\* a turn of session s begins: the host emits before_agent_start
BeforeAgentStart(s) ==
    /\ agent.state[s] = "awaiting_turn"
    /\ agent.turn_counter[s] < MaxTurns
    /\ agent' = [agent EXCEPT
           !.state[s] = "recalling",
           !.path[s] = <<"awaiting_turn", "recalling">>,
           !.turn_counter[s] = @ + 1,
           !.recalled[s] =
               IF "before_agent_start" \in agent.hooks THEN @ + 1 ELSE @]
    /\ UNCHANGED clientVars

\* the recall handler adds the full profile to what it recalled
ProfileInject(s) ==
    /\ agent.state[s] = "recalling"
    /\ InjectionDue(s)
    /\ agent' = [Enter(s, "profile_injecting") EXCEPT
           !.injected[s] = @ \cup {agent.turn_counter[s]}]
    /\ UNCHANGED clientVars

\* the turn of session s ends: the host emits agent_end
AgentEnd(s) ==
    /\ \/ agent.state[s] = "recalling" /\ ~InjectionDue(s)
       \/ agent.state[s] = "profile_injecting"
    /\ agent' = [Enter(s, "capturing") EXCEPT
           !.captured[s] =
               IF "agent_end" \in agent.hooks THEN @ + 1 ELSE @]
    /\ UNCHANGED clientVars

\* the capture handler of session s is over
TurnDone(s) ==
    /\ agent.state[s] = "capturing"
    /\ agent' = Enter(s, "awaiting_turn")
    /\ UNCHANGED clientVars

--------------------------------------------------------------------------
(* Initial states *)

\* a table written by earlier sessions of the client: every row was added by
\* addMemory (generated id, trimmed content, the content's embedding)
StoredTable(contents, dim) ==
    [exists |-> TRUE, dim |-> dim,
     rows |-> [i \in 1 .. Len(contents) |->
                 MemoryRecord(generateId(i), contents[i],
                              [j \in 1 .. dim |-> EmbValue(contents[i])], "{}")]]

\* an embedding under which a padded text and its trimmed text differ
EmbDefault == [t \in EmbTexts |-> IF t = T_a THEN 0 ELSE 1]

\* the client right after its constructor
FreshClient ==
    /\ db = FALSE
    /\ table = FALSE
    /\ initPromise = 0
    /\ inits = <<>>
    /\ pc = [p \in Callers |-> "idle"]
    /\ op = [p \in Callers |-> NoOp]
    /\ loc = [p \in Callers |-> NoLocals]
    /\ result = [p \in Callers |-> NoResult]
    /\ snap = [p \in Callers |-> NoSnap]
    /\ nops = 0
    /\ hist = NoHistory
    /\ clock = 0

Init ==
    /\ FreshClient
    /\ emb = EmbDefault
    /\ dialect = DefaultDialect
    /\ agent = NoAgent
    /\ dimNow \in Dims
    /\ disk \in {NoTable, StoredTable(<<T_b>>, 1)}
    /\ nextGen = Len(disk.rows)
    /\ profileFile = NoFile

--------------------------------------------------------------------------
(* The client used by one caller, one operation after the other *)

Contents == {T_empty, T_blank, T_a, T_a_padded, T_max_padded, T_over}
CustomIds == {None, Some(ID_empty), Some(ID_k1)}
Queries == {T_a, T_b}
Limits == {DEFAULT_LIMIT}
DeleteIds == {ID_k1, generateId(1)}

DoInit ==
    \E i \in 1 .. Len(inits) :
        \/ DoInitMkdir(i)
        \/ DoInitConnect(i)
        \/ DoInitTableNames(i)
        \/ DoInitOpenTable(i)
        \/ DoInitFail(i)

Embed(p, errors) ==
    \/ EmbedOk(p)
    \/ \E e \in errors : EmbedFail(p, e)
    \/ EmbedRetry(p)

AddMemory(p) ==
    \/ AddAfterInit(p)
    \/ CreateTableDone(p)
    \/ CreateDeleteDone(p)
    \/ AddDeleteDone(p)
    \/ AddInsertDone(p)

Search(p) == SearchAfterInit(p) \/ SearchDone(p)

DeleteMemory(p) == DeleteAfterInit(p) \/ DeleteDone(p)

WipeAllMemories(p) == WipeAfterInit(p) \/ WipeCounted(p) \/ WipeDropped(p)

GetProfile(p) == ProfileAfterInit(p) \/ ProfileRead(p)

UpdateProfile(p) == UpdateAfterInit(p) \/ UpdateRead(p) \/ UpdateWritten(p)

CallMemory(p) ==
    /\ nops < MaxOps
    /\ \/ \E c \in Contents, k \in CustomIds : addMemoryCall(p, c, k)
       \/ \E q \in Queries, l \in Limits : searchCall(p, q, l)
       \/ \E q \in Queries : forgetByQueryCall(p, q)
       \/ \E i \in DeleteIds : deleteMemoryCall(p, i)
       \/ wipeAllMemoriesCall(p)
       \/ \E q \in Queries : getProfileCall(p, Some(q))

Next ==
    \/ CallMemory(1)
    \/ DoInit
    \/ Embed(1, {"ECONNREFUSED"})
    \/ AddMemory(1)
    \/ Search(1)
    \/ DeleteMemory(1)
    \/ WipeAllMemories(1)
    \/ GetProfile(1)
    \/ ChangeDimension

Spec == Init /\ [][Next]_vars

--------------------------------------------------------------------------
(* One embedding per run, with every pattern of failures of the service *)

MaxEmbedOps == 1

CallEmbedding(p) ==
    /\ nops < MaxEmbedOps
    /\ \/ \E c \in {T_a_padded, T_blank}, k \in {None, Some(ID_k1)} :
             addMemoryCall(p, c, k)
       \/ \E q \in Queries : searchCall(p, q, DEFAULT_LIMIT)

NextEmbed ==
    \/ CallEmbedding(1)
    \/ DoInit
    \/ Embed(1, Errors)
    \/ AddMemory(1)
    \/ Search(1)

InitEmbed ==
    /\ FreshClient
    /\ emb = EmbDefault
    /\ dialect = DefaultDialect
    /\ agent = NoAgent
    /\ dimNow \in Dims
    /\ disk \in {NoTable, StoredTable(<<T_b>>, 1), StoredTable(<<T_b, T_a>>, 2)}
    /\ nextGen = Len(disk.rows)
    /\ profileFile = NoFile

SpecEmbed == InitEmbed /\ [][NextEmbed]_vars

--------------------------------------------------------------------------
(* Start-up: every caller invokes one operation before initialization has
   finished, and the operations run interleaved *)

CallStartup(p) ==
    /\ op[p].name = "none"
    /\ IF initPromise = 0 THEN TRUE ELSE inits[initPromise].state = "pending"
    /\ \/ \E k \in {None, Some(ID_k1)} : addMemoryCall(p, T_a, k)
       \/ searchCall(p, T_a, DEFAULT_LIMIT)
       \/ getProfileCall(p, Some(T_a))
       \/ updateProfileCall(p, Some(<<"A">>), None)
       \/ deleteMemoryCall(p, generateId(1))
       \/ wipeAllMemoriesCall(p)

NextStartup ==
    \/ \E p \in Callers : CallStartup(p)
    \/ DoInit
    \/ \E p \in Callers : EmbedOk(p)
    \/ \E p \in Callers : AddMemory(p)
    \/ \E p \in Callers : Search(p)
    \/ \E p \in Callers : DeleteMemory(p)
    \/ \E p \in Callers : WipeAllMemories(p)
    \/ \E p \in Callers : GetProfile(p)
    \/ \E p \in Callers : UpdateProfile(p)

InitStartup ==
    /\ FreshClient
    /\ emb = EmbDefault
    /\ dialect = DefaultDialect
    /\ agent = NoAgent
    /\ dimNow = 1
    /\ disk \in {NoTable, StoredTable(<<T_b>>, 1)}
    /\ nextGen = Len(disk.rows)
    /\ profileFile = NoFile

SpecStartup == InitStartup /\ [][NextStartup]_vars

--------------------------------------------------------------------------
(* The profile file, updated by one caller, one call after the other *)

\* n facts, numbered from k
Facts(k, n) == [i \in 1 .. n |-> k + i - 1]

StaticArgs == {None, Some(<<>>), Some(<<"A">>), Some(<<"A", "B">>), Some(<<"B", "B">>)}
DynamicArgs == {None, Some(<<>>), Some(Facts(1, DYNAMIC_CAP)),
                Some(Facts(101, DYNAMIC_CAP + 1)), Some(Facts(201, DYNAMIC_CAP + 5))}

CallProfile(p) ==
    \/ /\ nops < MaxUpdates
       /\ \E s \in StaticArgs, d \in DynamicArgs : updateProfileCall(p, s, d)
    \/ /\ result[p].name # "getProfile"
       /\ getProfileCall(p, None)

DoInitNoTable ==
    \E i \in 1 .. Len(inits) :
        \/ DoInitMkdir(i)
        \/ DoInitConnect(i)
        \/ DoInitTableNames(i)
        \/ DoInitFail(i)

NextProfile ==
    \/ CallProfile(1)
    \/ DoInitNoTable
    \/ GetProfile(1)
    \/ UpdateProfile(1)
    \/ Tick

InitProfile ==
    /\ FreshClient
    /\ emb = EmbDefault
    /\ dialect = DefaultDialect
    /\ agent = NoAgent
    /\ dimNow = 1
    /\ disk = NoTable
    /\ nextGen = 0
    /\ profileFile = NoFile

SpecProfile == InitProfile /\ [][NextProfile]_vars

--------------------------------------------------------------------------
(* Recall: addMemory(content), then search(content), on a store that earlier
   sessions filled, under every embedding of the texts *)

\* the tables of up to MaxStored rows with content "a" or "b"
StoredContents ==
    { [i \in 1 .. n |-> IF i <= k THEN T_a ELSE T_b] :
        n \in 0 .. MaxStored, k \in 0 .. MaxStored } 

CallRecall(p) ==
    \/ /\ nops = 0
       /\ \E c \in {T_a, T_a_padded, T_b} : addMemoryCall(p, c, None)
    \/ /\ nops = 1
       /\ IsSome(hist.lastAdd)
       /\ searchCall(p, Get(hist.lastAdd).content, DEFAULT_LIMIT)

NextRecall ==
    \/ CallRecall(1)
    \/ DoInit
    \/ EmbedOk(1)
    \/ AddAfterInit(1)
    \/ CreateTableDone(1)
    \/ CreateDeleteDone(1)
    \/ AddInsertDone(1)
    \/ Search(1)

InitRecall ==
    /\ FreshClient
    /\ emb \in [EmbTexts -> Values]
    /\ dialect = DefaultDialect
    /\ agent = NoAgent
    /\ dimNow = 1
    /\ \E c \in StoredContents :
          disk = IF c = <<>> THEN NoTable ELSE StoredTable(c, 1)
    /\ nextGen = Len(disk.rows)
    /\ profileFile = NoFile

SpecRecall == InitRecall /\ [][NextRecall]_vars

--------------------------------------------------------------------------
(* Deletes by id, with ids of every kind of character, under both readings
   of a quoted literal *)

MaxFilterOps == 2

FilterIds ==
    {ID_k1, ID_quote, ID_backslash, ID_or_true, ID_backslash_or_true, generateId(1)}

CallFilter(p) ==
    /\ nops < MaxFilterOps
    /\ \/ \E k \in FilterIds : addMemoryCall(p, T_a, Some(k))
       \/ \E i \in FilterIds : deleteMemoryCall(p, i)

NextFilter ==
    \/ CallFilter(1)
    \/ DoInit
    \/ EmbedOk(1)
    \/ AddMemory(1)
    \/ DeleteMemory(1)

InitFilter ==
    /\ FreshClient
    /\ emb = EmbDefault
    /\ dialect \in Dialects
    /\ agent = NoAgent
    /\ dimNow = 1
    /\ disk \in {NoTable, StoredTable(<<T_b, T_b>>, 1)}
    /\ nextGen = Len(disk.rows)
    /\ profileFile = NoFile

SpecFilter == InitFilter /\ [][NextFilter]_vars

--------------------------------------------------------------------------
(* Failures: one caller, one operation after the other, with an
   initialization and an embedding service that may fail, and close() *)

MaxFailureOps == 3

CallFailure(p) ==
    /\ nops < MaxFailureOps
    /\ \/ \E k \in {None, Some(ID_k1)} : addMemoryCall(p, T_a, k)
       \/ searchCall(p, T_a, DEFAULT_LIMIT)

NextFailure ==
    \/ CallFailure(1)
    \/ DoInit
    \/ Embed(1, {"ECONNREFUSED"})
    \/ AddMemory(1)
    \/ Search(1)
    \/ Close

InitFailure ==
    /\ FreshClient
    /\ emb = EmbDefault
    /\ dialect = DefaultDialect
    /\ agent = NoAgent
    /\ dimNow = 1
    /\ disk \in {NoTable, StoredTable(<<T_b>>, 1)}
    /\ nextGen = Len(disk.rows)
    /\ profileFile = NoFile

SpecFailure == InitFailure /\ [][NextFailure]_vars

--------------------------------------------------------------------------
(* The profile file as other programs may have left it: absent, not JSON,
   the JSON text null, or a profile *)

MaxCorruptOps == 2

StoredFiles ==
    {NoFile, GarbageFile, NullFile,
     WrittenFile([static |-> <<"A">>, dynamic |-> Facts(1, 2), lastUpdated |-> 0])}

CallCorrupt(p) ==
    /\ nops < MaxCorruptOps
    /\ \/ \E s \in {None, Some(<<"B">>), Some(<<"B", "B">>)},
             d \in {None, Some(Facts(11, DYNAMIC_CAP + 1))} :
               updateProfileCall(p, s, d)
       \/ getProfileCall(p, None)

NextCorrupt ==
    \/ CallCorrupt(1)
    \/ DoInitNoTable
    \/ GetProfile(1)
    \/ UpdateProfile(1)

InitCorrupt ==
    /\ FreshClient
    /\ emb = EmbDefault
    /\ dialect = DefaultDialect
    /\ agent = NoAgent
    /\ dimNow = 1
    /\ disk = NoTable
    /\ nextGen = 0
    /\ profileFile \in StoredFiles

SpecCorrupt == InitCorrupt /\ [][NextCorrupt]_vars

--------------------------------------------------------------------------
(* Races: every caller invokes one updateProfile or one addMemory, at any
   time, on a client without table and without profile file *)

\* the static fact caller p adds
FactOf(p) == <<"A", "B", "C", "D", "E">>[p]

CallRace(p) ==
    /\ op[p].name = "none"
    /\ \/ updateProfileCall(p, Some(<<FactOf(p)>>), None)
       \/ \E k \in {None, Some(ID_k1)} : addMemoryCall(p, T_a, k)

NextRace ==
    \/ \E p \in Callers : CallRace(p)
    \/ DoInitNoTable
    \/ \E p \in Callers : EmbedOk(p)
    \/ \E p \in Callers : AddMemory(p)
    \/ \E p \in Callers : UpdateProfile(p)

InitRace ==
    /\ FreshClient
    /\ emb = EmbDefault
    /\ dialect = DefaultDialect
    /\ agent = NoAgent
    /\ dimNow = 1
    /\ disk = NoTable
    /\ nextGen = 0
    /\ profileFile = NoFile

SpecRace == InitRace /\ [][NextRace]_vars

--------------------------------------------------------------------------
(* Turns: the plugin is registered under any configuration and the host
   runs the turns of its sessions; the client is left alone *)

NextTurns ==
    \/ \E s \in Sessions : BeforeAgentStart(s)
    \/ \E s \in Sessions : ProfileInject(s)
    \/ \E s \in Sessions : AgentEnd(s)
    \/ \E s \in Sessions : TurnDone(s)

InitTurns ==
    /\ FreshClient
    /\ emb = EmbDefault
    /\ dialect = DefaultDialect
    /\ agent \in {register(cfg) : cfg \in Configs}
    /\ dimNow = 1
    /\ disk = NoTable
    /\ nextGen = 0
    /\ profileFile = NoFile

SpecTurns == InitTurns /\ [][NextTurns]_vars

--------------------------------------------------------------------------
(* Progress: callers invoke any operations, interleaved, the collaborators
   may fail, and every call of a collaborator returns *)

\* caller 1 invokes one operation, any of them, and every other caller one
\* updateProfile
CallLive(p) ==
    /\ op[p].name = "none"
    /\ IF p = 1
       THEN \/ addMemoryCall(p, T_a, Some(ID_k1))
            \/ forgetByQueryCall(p, T_a)
            \/ wipeAllMemoriesCall(p)
            \/ getProfileCall(p, Some(T_a))
            \/ updateProfileCall(p, Some(<<FactOf(p)>>), None)
       ELSE updateProfileCall(p, Some(<<FactOf(p)>>), None)

\* the call caller p's operation is waiting for returns, or its delay is over
Step(p) ==
    \/ Embed(p, {"ECONNREFUSED"})
    \/ AddMemory(p)
    \/ Search(p)
    \/ DeleteMemory(p)
    \/ WipeAllMemories(p)
    \/ GetProfile(p)
    \/ UpdateProfile(p)

NextLive ==
    \/ \E p \in Callers : CallLive(p)
    \/ DoInit
    \/ \E p \in Callers : Step(p)

InitLive ==
    /\ FreshClient
    /\ emb = EmbDefault
    /\ dialect = DefaultDialect
    /\ agent = NoAgent
    /\ dimNow = 1
    /\ disk \in {NoTable, StoredTable(<<T_a>>, 1)}
    /\ nextGen = Len(disk.rows)
    /\ profileFile = NoFile

\* every call of the file system and of the store made by doInit returns, and
\* so does every call and every delay each operation waits for
SpecLive ==
    /\ InitLive
    /\ [][NextLive]_vars
    /\ WF_vars(DoInit)
    /\ \A p \in Callers : WF_vars(Step(p))

--------------------------------------------------------------------------
(* Properties *)

Idle(p) == pc[p] = "idle"
Done(p, name) == pc[p] = "idle" /\ result[p].name = name

InitAwaits == {"add_init", "search_init", "delete_init", "wipe_init",
               "profile_init", "update_init"}

\* C1: whatever the number of operations invoked before initialization has
\* finished, doInit runs exactly once; no caller gets past its
\* await ensureInitialized() before that one run has completed, no operation
\* returns a result unless it was fulfilled, and every operation fails with the
\* initialization's error when it was rejected.
C1_InitOnce ==
    /\ Len(inits) <= 1
    /\ nops > 0 => Len(inits) = 1 /\ initPromise = 1
    /\ \A p \in Callers :
         /\ op[p].name # "none" /\ ~Idle(p) => loc[p].awaiting = 1
         /\ pc[p] \notin InitAwaits \cup {"idle"} => inits[1].state = "fulfilled"
         /\ Idle(p) /\ result[p].kind # "none" => inits[1].state # "pending"
         /\ Idle(p) /\ result[p].kind = "ok" => inits[1].state = "fulfilled"
         /\ Idle(p) /\ result[p].kind = "err" /\ inits[1].state = "rejected"
               => result[p].err = "InitError"

\* every caller invoked its operation before initialization had finished, and
\* every operation has returned
C1_Witness ==
    /\ Len(inits) = 1
    /\ \A p \in Callers : Idle(p) /\ result[p].kind = "ok"
    /\ \E p, q \in Callers : result[p].name # result[q].name

AfterEmbed == {"create_wait", "create_delete", "add_delete", "add_insert",
               "search_wait"}

\* C2: embed calls the service at most EMBED_RETRY_COUNT = 3 times; the k-th
\* call follows k-1 failures; once a call has answered, its vector is what
\* embed returns and no further call is made; when all three calls fail the
\* operation fails with the error of the third call.
C2_EmbedRetry ==
    \A p \in Callers :
      /\ loc[p].calls <= EMBED_RETRY_COUNT
      /\ result[p].calls <= EMBED_RETRY_COUNT
      /\ pc[p] = "embed_wait" => loc[p].calls = Len(loc[p].errs) + 1
      /\ pc[p] = "embed_sleep" => loc[p].calls = Len(loc[p].errs)
      /\ pc[p] \in AfterEmbed =>
            /\ loc[p].calls = Len(loc[p].errs) + 1
            /\ loc[p].vector = Embedding(loc[p].text)
      /\ Idle(p) /\ result[p].calls > 0 /\ result[p].err \notin Errors =>
            result[p].calls = Len(result[p].errs) + 1
      /\ Done(p, "addMemory") /\ result[p].kind = "ok" =>
            result[p].vector = Embedding(Trim(op[p].content))
      /\ Idle(p) /\ result[p].err \in Errors =>
            /\ result[p].kind = "err"
            /\ result[p].calls = EMBED_RETRY_COUNT
            /\ Len(result[p].errs) = EMBED_RETRY_COUNT
            /\ result[p].err = result[p].errs[EMBED_RETRY_COUNT]
      /\ Idle(p) /\ Len(result[p].errs) = EMBED_RETRY_COUNT =>
            result[p].kind = "err" /\ result[p].err \in Errors

\* all three calls failed, the third with another error than the first two
C2_Witness ==
    \E p \in Callers :
      /\ Idle(p) /\ result[p].kind = "err"
      /\ Len(result[p].errs) = EMBED_RETRY_COUNT
      /\ result[p].errs[1] = result[p].errs[2]
      /\ result[p].errs[3] # result[p].errs[1]
      /\ result[p].err = result[p].errs[3]

\* the store held no record when the operation was invoked
NoRecords(p) == snap[p].disk.rows = <<>>

\* C3 (as claimed): a search invoked when the store holds no record (no table,
\* or a table without rows), on an initialized client and with the service
\* answering in the table's dimension or not at all, returns the empty
\* sequence and raises nothing.
C3_SearchEmptyNeverFails ==
    \A p \in Callers :
      ( /\ Done(p, "search")
        /\ NoRecords(p)
        /\ result[p].err # "InitError"
        /\ snap[p].disk.exists => snap[p].dim = snap[p].disk.dim )
      => result[p].kind = "ok" /\ result[p].hits = <<>>

ValidContent(c) == ContentError(Trim(c)) = ""

\* C4: a search invoked after wipeAllMemories has completed (with nothing but
\* searches in between) returns the empty sequence, whatever the embedding
\* service does; an addMemory with valid content invoked then returns its id
\* unless the embedding service fails it, and the table it leaves has the
\* dimension of the new vector and holds the new record alone.
C4_AfterWipe ==
    \A p \in Callers :
      /\ Done(p, "search") /\ snap[p].hist.wipedDim >= 0 =>
            result[p].kind = "ok" /\ result[p].hits = <<>>
      /\ ( /\ Done(p, "addMemory")
           /\ snap[p].hist.wipedDim >= 0
           /\ ValidContent(op[p].content) )
         => /\ result[p].kind = "ok" \/ result[p].err \in Errors
            /\ result[p].kind = "ok" =>
                 /\ disk.exists
                 /\ disk.dim = Len(result[p].vector)
                 /\ disk.dim = snap[p].dim
                 /\ disk.rows = <<NewRecord(result[p].id, Trim(op[p].content),
                                            result[p].vector)>>

\* an addMemory after the wipe of a table of another dimension has returned
C4_Witness ==
    \E p \in Callers :
      /\ Done(p, "addMemory") /\ result[p].kind = "ok"
      /\ snap[p].hist.wipedDim >= 1
      /\ disk.dim # snap[p].hist.wipedDim

\* caller p is the only one that has called the client so far, so that its
\* calls are sequential
OnlyCaller(p) == \A q \in Callers \ {p} : op[q].name = "none"

NoDuplicates(s) == \A i, j \in 1 .. Len(s) : i # j => s[i] # s[j]
IsPrefix(s, t) == Len(s) <= Len(t) /\ SubSeq(t, 1, Len(s)) = s

\* C5 (as claimed): after any sequence of updateProfile calls from an absent
\* file, the static list of the file holds no string twice, and every call
\* keeps the facts that were there, in their order, before the new ones.
C5_StaticIsOrderedSet ==
    /\ NoDuplicates(profileFile.static)
    /\ \A p \in Callers :
         Done(p, "updateProfile") /\ result[p].kind = "ok" =>
            IsPrefix(snap[p].file.static, profileFile.static)

\* C6: an updateProfile that returns has replaced the dynamic list of the file
\* by the first min(20, length) elements of its dynamicFacts argument, in
\* order, or has left the list as it was when called without dynamicFacts; the
\* dynamic list of the file never has more than 20 entries.
C6_DynamicReplaced ==
    /\ Len(profileFile.dynamic) <= DYNAMIC_CAP
    /\ \A p \in Callers :
         Done(p, "updateProfile") /\ result[p].kind = "ok" =>
            LET arg == op[p].dynamicFacts
                now == profileFile.dynamic
            IN  IF IsSome(arg)
                THEN /\ Len(now) = Min(DYNAMIC_CAP, Len(Get(arg)))
                     /\ \A i \in 1 .. Len(now) : now[i] = Get(arg)[i]
                ELSE now = snap[p].file.dynamic

\* a list of 25 facts has replaced a list of 20 other facts
C6_Witness ==
    \E p \in Callers :
      /\ Done(p, "updateProfile") /\ result[p].kind = "ok"
      /\ IsSome(op[p].dynamicFacts)
      /\ Len(Get(op[p].dynamicFacts)) = DYNAMIC_CAP + 5
      /\ Len(snap[p].file.dynamic) = DYNAMIC_CAP
      /\ Len(profileFile.dynamic) = DYNAMIC_CAP
      /\ profileFile.dynamic[1] # snap[p].file.dynamic[1]

\* the query vector of caller p's operation
QueryVector(p) == [i \in 1 .. snap[p].dim |-> EmbValue(Get(op[p].query))]

\* rows without its i-th row
RemoveAt(rows, i) == SubSeq(rows, 1, i - 1) \o SubSeq(rows, i + 1, Len(rows))

\* C7 (as claimed): with calls made one after the other, a forgetByQuery that
\* returns reports success = false and leaves the store as it was when the
\* store held no record, and otherwise reports success = true and has removed
\* exactly one record, the first hit of its search, a record nearest to the
\* query, leaving the others as they were.
C7_ForgetExactlyOne ==
    \A p \in Callers :
      OnlyCaller(p) /\ Done(p, "forgetByQuery") /\ result[p].kind = "ok" =>
         LET before == snap[p].disk.rows
         IN  IF before = <<>>
             THEN ~result[p].success /\ disk = snap[p].disk
             ELSE /\ result[p].success
                  /\ result[p].id = result[p].hits[1].id
                  /\ \E i \in 1 .. Len(before) :
                       /\ before[i].id = result[p].id
                       /\ \A j \in 1 .. Len(before) :
                            Distance(before[i].vector, QueryVector(p))
                              <= Distance(before[j].vector, QueryVector(p))
                       /\ disk.rows = RemoveAt(before, i)

InvalidContent(c) == Trim(c) = <<>> \/ StrLen(Trim(c)) > MAX_CONTENT_LENGTH

\* C8: an addMemory whose trimmed content is empty or longer than 50,000
\* characters never gets past its validation: the embedding service is not
\* called, the store stays as it was (no table is created, no record changes)
\* and the call fails with the validation error (with the initialization's
\* error when that failed); content that is valid is never refused as invalid.
C8_InvalidContentRejected ==
    \A p \in Callers :
      /\ op[p].name = "addMemory" /\ InvalidContent(op[p].content) =>
           /\ pc[p] \in {"add_init", "idle"}
           /\ loc[p].calls = 0
           /\ disk = snap[p].disk
           /\ Done(p, "addMemory") =>
                /\ result[p].kind = "err"
                /\ result[p].calls = 0
                /\ result[p].err =
                     IF inits[1].state = "rejected" THEN "InitError"
                     ELSE IF Trim(op[p].content) = <<>>
                     THEN "Cannot store empty content" ELSE "Content too large"
      /\ Done(p, "addMemory") /\ ~InvalidContent(op[p].content) =>
           result[p].err \notin {"Cannot store empty content", "Content too large"}

\* content of 50,001 characters was refused on a store that holds a record
C8_Witness ==
    \E p \in Callers :
      /\ Done(p, "addMemory")
      /\ op[p].content = T_over
      /\ result[p].err = "Content too large"
      /\ disk.rows # <<>>

\* the rows with the id
RowsWithId(rows, id) == { i \in 1 .. Len(rows) : rows[i].id = id }

\* C9 (as claimed): with calls made one after the other, after an addMemory
\* with a customId has returned, the store holds exactly one record with that
\* id, with the trimmed content of that call, and the number of records is
\* what it was if the id was there.
C9_UpsertByCustomId ==
    \A p \in Callers :
      ( /\ OnlyCaller(p) /\ Done(p, "addMemory") /\ result[p].kind = "ok"
        /\ IsSome(op[p].customId) )
      => LET id == Get(op[p].customId)
         IN  /\ Cardinality(RowsWithId(disk.rows, id)) = 1
             /\ \A i \in RowsWithId(disk.rows, id) :
                   disk.rows[i].content = Trim(op[p].content)
             /\ RowsWithId(snap[p].disk.rows, id) # {} =>
                   Len(disk.rows) = Len(snap[p].disk.rows)


\* caller p's search has returned, and it asked for the content of the
\* addMemory that returned just before it
Recalled(p) ==
    /\ Done(p, "search") /\ result[p].kind = "ok"
    /\ IsSome(snap[p].hist.lastAdd)
    /\ op[p].query = Some(Get(snap[p].hist.lastAdd).content)
    /\ op[p].limit = DEFAULT_LIMIT

\* the record the addMemory before caller p's search has stored
AddedRow(p) ==
    LET rows == snap[p].disk.rows
    IN  rows[CHOOSE i \in 1 .. Len(rows) :
                rows[i].id = Get(snap[p].hist.lastAdd).id]

\* the similarity search reports for a row: 1 - distance to the query
Similarity(p, row) == 1 - Distance(row.vector, QueryVector(p))

InHits(p, id) == \E i \in 1 .. Len(result[p].hits) : result[p].hits[i].id = id

\* the rows of the store other than the added one that are as near to the
\* query as it
Rivals(p) ==
    LET rows == snap[p].disk.rows
    IN  { i \in 1 .. Len(rows) :
            /\ rows[i].id # AddedRow(p).id
            /\ Similarity(p, rows[i]) >= Similarity(p, AddedRow(p)) }

\* C10 (as claimed): for every valid content and every prior store, a
\* successful addMemory(content) followed by search(content) with the default
\* limit returns the added record among its results, with a similarity not
\* below that of any stored record with different content.
C10_RecallAsClaimed ==
    \A p \in Callers :
      Recalled(p) =>
         /\ InHits(p, AddedRow(p).id)
         /\ \A i \in 1 .. Len(snap[p].disk.rows) :
               snap[p].disk.rows[i].content # AddedRow(p).content =>
                  Similarity(p, AddedRow(p)) >= Similarity(p, snap[p].disk.rows[i])

\* C10 (amended): for valid content that has no leading or trailing
\* whitespace, a successful addMemory(content) followed by search(content)
\* with the default limit finds the added record at similarity 1, not below
\* the similarity of any stored record; the record is among the results when
\* fewer than 5 other stored records are as near to the query, and otherwise
\* the results are 5 records of that same similarity.
C10_Recall ==
    \A p \in Callers :
      Recalled(p) /\ Trim(Get(op[p].query)) = Get(op[p].query) =>
         LET rows == snap[p].disk.rows
             hits == result[p].hits
         IN  /\ Similarity(p, AddedRow(p)) = 1
             /\ \A i \in 1 .. Len(rows) :
                   Similarity(p, AddedRow(p)) >= Similarity(p, rows[i])
             /\ Cardinality(Rivals(p)) < DEFAULT_LIMIT => InHits(p, AddedRow(p).id)
             /\ \A i \in 1 .. Len(hits) :
                   /\ hits[i].id = AddedRow(p).id => hits[i].similarity = 1
                   /\ ~InHits(p, AddedRow(p).id) => hits[i].similarity = 1
             /\ ~InHits(p, AddedRow(p).id) => Len(hits) = DEFAULT_LIMIT

\* the added record was found in a store of more records than the limit,
\* ahead of a record with other content and a lower similarity
C10_Witness ==
    \E p \in Callers :
      /\ Recalled(p) /\ Trim(Get(op[p].query)) = Get(op[p].query)
      /\ InHits(p, AddedRow(p).id)
      /\ Len(snap[p].disk.rows) > DEFAULT_LIMIT
      /\ \E i \in 1 .. Len(snap[p].disk.rows) :
            /\ snap[p].disk.rows[i].content # AddedRow(p).content
            /\ Similarity(p, snap[p].disk.rows[i]) < 1


\* the rows whose id is not id, in their order
RECURSIVE WithoutId(_, _)
WithoutId(rows, id) ==
    IF rows = <<>> THEN <<>>
    ELSE (IF Head(rows).id = id THEN <<>> ELSE <<Head(rows)>>)
         \o WithoutId(Tail(rows), id)

\* C11 (as claimed): with one caller and an initialization that succeeded, a
\* deleteMemory(id) has not raised when no stored record had the id; when no
\* table existed it has left the store as it was; when it returned, the store
\* holds the records it held without those whose id is id, in their order,
\* and the table, its dimension, the table handle and the profile file are as
\* they were.
C11_DeleteById ==
    \A p \in Callers :
      ( /\ OnlyCaller(p) /\ Done(p, "deleteMemory")
        /\ result[p].err # "InitError" )
      => /\ RowsWithId(snap[p].disk.rows, op[p].id) = {} => result[p].kind = "ok"
         /\ ~snap[p].disk.exists => disk = snap[p].disk
         /\ result[p].kind = "ok" =>
              /\ disk = [snap[p].disk EXCEPT !.rows = WithoutId(@, op[p].id)]
              /\ table = snap[p].disk.exists
              /\ profileFile = snap[p].file


\* C18 (as claimed): with one caller, whatever characters the id holds, a
\* deleteMemory(id) and an addMemory with the customId id leave every stored
\* record whose id is not exactly id in the store, in its place: the delete
\* filter they build matches no other record.
C18_FilterMatchesOnlyId ==
    \A p \in Callers :
      /\ OnlyCaller(p) /\ Done(p, "deleteMemory") =>
           WithoutId(disk.rows, op[p].id) = WithoutId(snap[p].disk.rows, op[p].id)
      /\ OnlyCaller(p) /\ Done(p, "addMemory") /\ IsSome(op[p].customId) =>
           WithoutId(disk.rows, Get(op[p].customId))
             = WithoutId(snap[p].disk.rows, Get(op[p].customId))


\* caller p's last operation has settled
Settles(p) == pc[p] = "idle" /\ result[p].name # "none"

\* C12 (as claimed): an operation invoked after the initialization has failed
\* does not fail with the initialization's error: the failure stays with
\* the operation that triggered the initialization.
C12_FailureScoped ==
    \A p \in Callers :
      Settles(p) /\ snap[p].init = "rejected" => result[p].err # "InitError"


\* C13: with one caller, a wipeAllMemories that returns reports the number of
\* records the store held when it was called and leaves no table on disk and
\* no table handle in the client; when there was no table it reports 0 and the
\* store is as it was. It fails only with the initialization's error, and
\* then leaves the store as it was.
C13_WipeCount ==
    \A p \in Callers :
      OnlyCaller(p) /\ Done(p, "wipeAllMemories") =>
         /\ result[p].kind = "ok" =>
              /\ result[p].count = Len(snap[p].disk.rows)
              /\ ~table /\ disk = NoTable
              /\ ~snap[p].disk.exists => result[p].count = 0 /\ disk = snap[p].disk
         /\ result[p].kind = "err" =>
              result[p].err = "InitError" /\ disk = snap[p].disk

\* a wipe of a table of two records has returned 2
C13_Witness ==
    \E p \in Callers :
      /\ OnlyCaller(p) /\ Done(p, "wipeAllMemories") /\ result[p].kind = "ok"
      /\ Len(snap[p].disk.rows) = 2
      /\ result[p].count = 2
      /\ disk = NoTable


Unusable(f) == f.kind \in {"absent", "garbage"}

BothUpdated(p, q) ==
    /\ p # q
    /\ \A r \in Callers \ {p, q} : op[r].name # "updateProfile"
    /\ Done(p, "updateProfile") /\ result[p].kind = "ok"
    /\ Done(q, "updateProfile") /\ result[q].kind = "ok"

\* C15: when two updateProfile calls with different static facts, the only
\* ones, have both returned and one was invoked after the other had returned,
\* the file holds the facts of both; whenever an updateProfile has returned,
\* the file holds the fact of at least one call. (That concurrent calls can
\* leave the fact of only one of them is the state C15_Witness describes.)
C15_SequentialKeepsBoth ==
    /\ \A p, q \in Callers :
         BothUpdated(p, q) /\ p \in snap[q].settled =>
            /\ Contains(profileFile.static, FactOf(p))
            /\ Contains(profileFile.static, FactOf(q))
    /\ \A p \in Callers :
         Done(p, "updateProfile") /\ result[p].kind = "ok" =>
            /\ profileFile.kind = "json"
            /\ \E q \in Callers :
                  /\ op[q].name = "updateProfile"
                  /\ Contains(profileFile.static, FactOf(q))

\* two updateProfile calls ran concurrently, both returned, and the file
\* holds the fact of one of them only
C15_Witness ==
    \E p, q \in Callers :
      /\ BothUpdated(p, q)
      /\ p \notin snap[q].settled /\ q \notin snap[p].settled
      /\ profileFile.static = <<FactOf(q)>>


\* C16: an addMemory creates the table at most once, and never when the
\* table handle was cached when it was invoked; the creation is guarded by
\* nothing else, while the connection is set up once for all callers. (That
\* two calls in flight before a table exists both create it is the state
\* C16_Witness describes.)
C16_CreationGuardedByHandle ==
    /\ Len(inits) <= 1
    /\ \A p \in Callers :
         /\ loc[p].creates <= 1 /\ result[p].creates <= 1
         /\ snap[p].table => loc[p].creates = 0
         /\ Settles(p) /\ snap[p].table => result[p].creates = 0

\* two addMemory calls were in flight before a table existed, both have
\* created the table and both have returned
C16_Witness ==
    \E p, q \in Callers :
      /\ p # q
      /\ Done(p, "addMemory") /\ result[p].kind = "ok" /\ result[p].creates = 1
      /\ Done(q, "addMemory") /\ result[q].kind = "ok" /\ result[q].creates = 1
      /\ ~snap[p].disk.exists /\ ~snap[q].disk.exists


\* every record of the table has a vector of the table's dimension
DimensionBound ==
    disk.exists => \A i \in 1 .. Len(disk.rows) : Len(disk.rows[i].vector) = disk.dim

\* caller p's addMemory got a vector of another dimension than the table's
Mismatched(p) ==
    /\ Done(p, "addMemory") /\ OnlyCaller(p)
    /\ snap[p].disk.exists /\ snap[p].dim # snap[p].disk.dim

TurnOrders ==
    {<<"awaiting_turn", "recalling", "capturing", "awaiting_turn">>,
     <<"awaiting_turn", "recalling", "profile_injecting", "capturing",
       "awaiting_turn">>}

\* the recall of turn n of session s is over
RecallOver(s, n) ==
    n < agent.turn_counter[s] \/ agent.state[s] \notin {"recalling"}

AwaitsInit(p) ==
    pc[p] \in {"add_init", "search_init", "delete_init", "wipe_init",
               "profile_init", "update_init"}

\* C20: an operation that was invoked returns, with a result or an error,
\* when every call of the embedding service, the store and the file system
\* returns; an operation in flight has called the embedding service at most
\* EMBED_RETRY_COUNT times and is not in a delay after the last attempt; and
\* an operation in flight can always go on when the call it waits for
\* returns, except while the shared initialization is pending, which can
\* then go on itself.
C20_OperationsReturn ==
    /\ \A p \in Callers : (pc[p] # "idle") ~> (pc[p] = "idle")
    /\ [](\A p \in Callers :
            /\ loc[p].calls <= EMBED_RETRY_COUNT
            /\ pc[p] = "embed_sleep" => loc[p].calls < EMBED_RETRY_COUNT
            /\ pc[p] # "idle" =>
                 \/ ENABLED Step(p)
                 \/ AwaitsInit(p) /\ ~Settled(p) /\ ENABLED DoInit)

\* an operation returned the embedding error after EMBED_RETRY_COUNT failed
\* calls while another operation was still in flight
C20_Witness ==
    \E p, q \in Callers :
        /\ p # q
        /\ pc[p] = "idle"
        /\ result[p].kind = "err"
        /\ result[p].calls = EMBED_RETRY_COUNT
        /\ Len(result[p].errs) = EMBED_RETRY_COUNT
        /\ pc[q] # "idle"

\* updateProfile was called with nothing that is new to the profile read
NothingNew(p) ==
    LET read == LoadProfile(snap[p].file)
    IN  /\ IsSome(op[p].staticFacts) =>
             \A i \in 1 .. Len(Get(op[p].staticFacts)) :
                 Contains(read.static, Get(op[p].staticFacts)[i])
        /\ IsSome(op[p].dynamicFacts) => Get(op[p].dynamicFacts) = read.dynamic

\* C21: when the only caller's updateProfile has returned, the profile file
\* holds JSON with the lists the call computed and a lastUpdated that lies
\* between the time the call was invoked and now; when the call was given
\* no argument, or only facts the profile read already had, the lists in
\* the file are the ones that were read.
C21_AlwaysWritten ==
    \A p \in Callers :
        (Done(p, "updateProfile") /\ result[p].kind = "ok") =>
            /\ profileFile.kind = "json"
            /\ profileFile.static = result[p].static
            /\ profileFile.dynamic = result[p].dynamic
            /\ snap[p].clock <= profileFile.lastUpdated
            /\ profileFile.lastUpdated <= clock
            /\ NothingNew(p) =>
                 /\ profileFile.static = LoadProfile(snap[p].file).static
                 /\ profileFile.dynamic = LoadProfile(snap[p].file).dynamic

\* an updateProfile without arguments, invoked after the clock moved on,
\* returned: the file has the lists of the older file and the later time
C21_Witness ==
    \E p \in Callers :
        /\ Done(p, "updateProfile") /\ result[p].kind = "ok"
        /\ op[p].staticFacts = None /\ op[p].dynamicFacts = None
        /\ snap[p].file.kind = "json"
        /\ snap[p].file.static # <<>>
        /\ snap[p].file.lastUpdated < snap[p].clock
        /\ profileFile.static = snap[p].file.static
        /\ profileFile.lastUpdated = snap[p].clock

AllIdle == \A p \in Callers : pc[p] = "idle"

\* C22: once every call has completed, the store holds a record with the id
\* of each addMemory that returned successfully (no call of these runs
\* deletes or wipes; a record replaced by an upsert of its id leaves a
\* record with that id).
C22_ReturnedMeansStored ==
    AllIdle =>
        \A p \in Callers :
            (Done(p, "addMemory") /\ result[p].kind = "ok") =>
                disk.exists /\ RowsWithId(disk.rows, result[p].id) # {}

\* the rows that are the placeholder of ensureTable
Placeholders(rows) == RowsWithId(rows, INIT_ID)

\* C23: no result of search or getProfile holds a hit with the id "__init__",
\* and the rows wipeAllMemories counts never include the placeholder.
C23_PlaceholderUnseen ==
    /\ [](\A p \in Callers :
            \A i \in 1 .. Len(result[p].hits) : result[p].hits[i].id # INIT_ID)
    /\ [][\A p \in Callers :
            (pc[p] = "wipe_count" /\ pc'[p] = "wipe_drop") =>
                Placeholders(disk.rows) = {}]_vars

\* C24: no operation fails with the error of ensureTable that reports a
\* missing connection.
C24_ConnectionStays ==
    \A p \in Callers :
        ~(result[p].kind = "err" /\ result[p].err = "Database not initialized")

\* C25: no two records of the store have the same id.
C25_IdsUnique ==
    \A i, j \in 1 .. Len(disk.rows) :
        disk.rows[i].id = disk.rows[j].id => i = j

====
